---- MODULE Spec2Model ----
(***************************************************************************)
(* Model of the figo design-tool plugin: the host script                   *)
(* (apps/plugin/plugin-src/code.ts) and the panel                          *)
(* (apps/plugin/ui-src/App.tsx), joined by two FIFO message channels.      *)
(*                                                                         *)
(* Every `await` of the source is a point where other events may run, so   *)
(* each asynchronous function is cut into one action per await.            *)
(***************************************************************************)
EXTENDS Integers, Sequences, FiniteSets, TLC

(* ---------------------------- bounds ----------------------------------- *)
\* number of selectionchange events after the startup call
MaxEvents == 1
\* number of Save Token / Clear Token clicks
MaxClicks == 2

(* ---------------------------- domains ---------------------------------- *)
\* host objects that can be selected; Exportable are those with exportAsync
Nodes == {"n1", "n2", "n3"}
Exportable == {"n1", "n2"}
\* values of figma.currentPage.selection
Selections == { <<>>, <<"n3">>, <<"n2", "n1", "n3">> }
\* strings the user can type in the token input
Tokens == {"", "a"}
\* a token stored by an earlier session of the plugin
Stored == "b"
\* clientStorage.getAsync of a key that was never set, or was deleted
Undef == "<undefined>"
SlotValues == Tokens \cup {Stored, Undef}

\* a comment of the remote API: node is client_meta.node_id,
\* "<none>" when the comment has no client_meta
Comment(i, n) == [id |-> i, node |-> n]
CommentLists ==
  { <<>>,
    << Comment(1, "n2"), Comment(2, "<none>"), Comment(3, "n1"),
       Comment(4, "n9"), Comment(5, "n1") >> }

\* what the HTTP request of fetchComments can come back with
Responses ==
  { [kind |-> k, comments |-> <<>>] :
       k \in {"throw", "notok", "badjson", "nocomments", "nonarray"} }
  \cup { [kind |-> "ok", comments |-> l] : l \in CommentLists }

VARIABLES
  hostUp,       \* the main script of code.ts has run
  selection,    \* figma.currentPage.selection
  calls,        \* invocations of sendSelectionToUI, in invocation order
  slot,         \* clientStorage['figmaAccessToken']
  handlers,     \* invocations of figma.ui.onmessage that are suspended
  toPanel,      \* figma.ui.postMessage: host -> panel, FIFO
  toHost,       \* parent.postMessage:   panel -> host, FIFO
  mounted,      \* the panel's effect of App.tsx:251 has run
  pSelection,   \* App state `selection`
  accessToken,  \* App state `accessToken`
  tokenInput,   \* App state `tokenInput`
  showSettings, \* App state `showSettings`
  clicks,       \* Save Token / Clear Token clicks so far
  stage,        \* how far the function under study has been applied
  arg,          \* the value the function under study is applied to
  res,          \* what it returned
  html          \* what generateHTML made of res

vars == << hostUp, selection, calls, slot, handlers, toPanel, toHost,
           mounted, pSelection, accessToken, tokenInput, showSettings,
           clicks, stage, arg, res, html >>

hostVars  == << hostUp, selection, calls, slot, handlers >>
panelVars == << mounted, pSelection, accessToken, tokenInput, showSettings,
                clicks >>
\* the variables of the specifications of single functions
pureVars  == << stage, arg, res, html >>

(* ---------------------------- helpers ---------------------------------- *)
\* variant: only a missing value counts as "no token"
Truthy_undefOnly(v) == v # Undef

\* JavaScript truthiness of a slot value (!accessToken, token || '')
Truthy(v) == v # Undef /\ v # ""

Remove(s, i) == SubSeq(s, 1, i - 1) \o SubSeq(s, i + 1, Len(s))

Last(s) == s[Len(s)]

\* msg.data of a 'selection' message: null or the array of node records
NullData == [isNull |-> TRUE, nodes |-> <<>>]
ArrayData(recs) == [isNull |-> FALSE, nodes |-> recs]

\* the messages of both channels
Msg(t, d, tok) == [type |-> t, data |-> d, token |-> tok]
SelectionMsg(d) == Msg("selection", d, "")
PlainMsg(t) == Msg(t, NullData, "")
TokenMsg(t, tok) == Msg(t, NullData, tok)

\* status of one node's export inside the Promise.all of a call
\*   "pending" exportAsync in flight, "ok" resolved, "fail" rejected,
\*   "none" the node has no exportAsync
StartExport(n) == IF n \in Exportable THEN "pending" ELSE "none"

\* the record of one top-level node as the call returns it from the mapper
nodeData(n, st) == [id |-> n, svg |-> (st = "ok"), comments |-> <<>>]

selectionData(c) == [i \in 1..Len(c.sel) |-> nodeData(c.sel[i], c.exp[i])]

\* variant: every record gets every fetched comment
attachComments_all(recs, allComments) ==
  [i \in 1..Len(recs) |-> [recs[i] EXCEPT !.comments = allComments]]

\* code.ts:59-63
attachComments(recs, allComments) ==
  [i \in 1..Len(recs) |->
     [recs[i] EXCEPT !.comments =
        SelectSeq(allComments, LAMBDA cm : cm.node = recs[i].id)]]

(* ---------------------------- initial state ---------------------------- *)
\* no function is under study
PureIdle ==
  /\ stage = "idle"
  /\ arg = <<>>
  /\ res = <<>>
  /\ html = <<>>

Init ==
  /\ hostUp = FALSE
  /\ selection \in Selections
  /\ calls = <<>>
  /\ slot \in {Undef, "", Stored}
  /\ handlers = <<>>
  /\ toPanel = <<>>
  /\ toHost = <<>>
  /\ mounted = FALSE
  /\ pSelection = NullData
  /\ accessToken = ""
  /\ tokenInput = ""
  /\ showSettings = FALSE
  /\ clicks = 0
  /\ PureIdle

(* ---------------------------- host: sendSelectionToUI ------------------ *)
\* the synchronous prefix of sendSelectionToUI, up to its first await
\*   sel, exp   the selection read at :13 and the state of its exports
\*   pc         the await the invocation is suspended at
\*   n          number of top-level nodes of that selection
\*   atStart    a token was stored when the invocation began
\*   tokRead    fetchComments read a token from the slot
\*   reqs, posts  HTTP requests issued and messages posted so far
NewCall(sel) ==
  [ sel     |-> sel,
    exp     |-> [i \in 1..Len(sel) |-> StartExport(sel[i])],
    pc      |-> IF Len(sel) = 0 THEN "done" ELSE "export",
    n       |-> Len(sel),
    atStart |-> Truthy(slot),
    tokRead |-> FALSE,
    reqs    |-> 0,
    posts   |-> IF Len(sel) = 0 THEN 1 ELSE 0 ]

\* an invocation that has returned keeps none of its locals
Returned(c, pc, posts) ==
  [ c EXCEPT !.sel = <<>>, !.exp = <<>>, !.pc = pc, !.posts = posts ]

\* code.ts:16-19
postNull ==
  toPanel' = Append(toPanel, SelectionMsg(NullData))

sendSelectionToUI(sel) ==
  /\ calls' = Append(calls, NewCall(sel))
  /\ IF Len(sel) = 0 THEN postNull ELSE toPanel' = toPanel

\* code.ts:2-10: showUI, register the listener, the startup call
Startup ==
  /\ ~hostUp
  /\ hostUp' = TRUE
  /\ sendSelectionToUI(selection)
  /\ UNCHANGED << selection, slot, handlers, toHost >>
  /\ UNCHANGED panelVars
  /\ UNCHANGED pureVars

\* code.ts:5-7
SelectionChange(s) ==
  /\ hostUp
  /\ Len(calls) < MaxEvents + 1
  /\ s # selection
  /\ selection' = s
  /\ sendSelectionToUI(s)
  /\ UNCHANGED << hostUp, slot, handlers, toHost >>
  /\ UNCHANGED panelVars
  /\ UNCHANGED pureVars

\* variant: no try/catch around exportAsync, a rejection ends the invocation
ExportSettle_uncaught(c, i, ok) ==
  /\ calls[c].pc = "export"
  /\ calls[c].exp[i] = "pending"
  /\ calls' = IF ok THEN [calls EXCEPT ![c].exp[i] = "ok"]
              ELSE [calls EXCEPT
                      ![c] = Returned(calls[c], "aborted", calls[c].posts)]
  /\ UNCHANGED << hostUp, selection, slot, handlers, toPanel, toHost >>
  /\ UNCHANGED panelVars
  /\ UNCHANGED pureVars

\* code.ts:32-46: one exportAsync settles
ExportSettle(c, i, ok) ==
  /\ calls[c].pc = "export"
  /\ calls[c].exp[i] = "pending"
  /\ calls' = [calls EXCEPT ![c].exp[i] = IF ok THEN "ok" ELSE "fail"]
  /\ UNCHANGED << hostUp, selection, slot, handlers, toPanel, toHost >>
  /\ UNCHANGED panelVars
  /\ UNCHANGED pureVars

\* code.ts:24,53-57,196: Promise.all resolves, fetchComments starts getAsync
ExportsDone(c) ==
  /\ calls[c].pc = "export"
  /\ \A i \in 1..Len(calls[c].sel) : calls[c].exp[i] # "pending"
  /\ calls' = [calls EXCEPT ![c].pc = "getAsync"]
  /\ UNCHANGED << hostUp, selection, slot, handlers, toPanel, toHost >>
  /\ UNCHANGED panelVars
  /\ UNCHANGED pureVars

\* code.ts:59-63: the data of the message of an invocation
Finish(c, allComments) ==
  ArrayData(attachComments(selectionData(c), allComments))

\* variant: a report is posted only by the latest invocation
postSelection_sequenced(c, data) ==
  toPanel' = IF c = Len(calls) THEN Append(toPanel, SelectionMsg(data))
             ELSE toPanel

\* code.ts:65-69: invocation number c posts its message
postSelection(c, data) ==
  toPanel' = Append(toPanel, SelectionMsg(data))

\* variant: the comments of an earlier invocation are reused
GetAsyncResolve_cached(c) ==
  /\ calls[c].pc = "getAsync"
  /\ IF ~Truthy(slot) \/ \E d \in 1..(c - 1) : calls[d].reqs > 0
     THEN /\ calls' = [calls EXCEPT
                         ![c] = Returned(calls[c], "done", calls[c].posts + 1)]
          /\ postSelection(c, Finish(calls[c], <<>>))
     ELSE /\ calls' = [calls EXCEPT ![c].pc = "fetch", ![c].tokRead = TRUE,
                         ![c].reqs = @ + 1]
          /\ toPanel' = toPanel
  /\ UNCHANGED << hostUp, selection, slot, handlers, toHost >>
  /\ UNCHANGED panelVars
  /\ UNCHANGED pureVars

\* code.ts:196-211: getAsync resolves; without a token fetchComments
\* returns [] and the call posts, with one the HTTP request is issued
GetAsyncResolve(c) ==
  /\ calls[c].pc = "getAsync"
  /\ IF ~Truthy(slot)
     THEN /\ calls' = [calls EXCEPT
                         ![c] = Returned(calls[c], "done", calls[c].posts + 1)]
          /\ postSelection(c, Finish(calls[c], <<>>))
     ELSE /\ calls' = [calls EXCEPT ![c].pc = "fetch", ![c].tokRead = TRUE,
                         ![c].reqs = @ + 1]
          /\ toPanel' = toPanel
  /\ UNCHANGED << hostUp, selection, slot, handlers, toHost >>
  /\ UNCHANGED panelVars
  /\ UNCHANGED pureVars

\* code.ts:213-223: what fetchComments returns for a response
\* ("nonarray": data.comments is truthy but not an array and is returned
\* as it is)
fetchCommentsResult(r) ==
  CASE r.kind = "ok"       -> [array |-> TRUE,  comments |-> r.comments]
    [] r.kind = "nonarray" -> [array |-> FALSE, comments |-> <<>>]
    [] OTHER               -> [array |-> TRUE,  comments |-> <<>>]

\* code.ts:204-223,57-69: the request settles; allComments.filter throws
\* when allComments is not an array and the call ends without posting
FetchSettle(c, r) ==
  /\ calls[c].pc = "fetch"
  /\ LET got == fetchCommentsResult(r) IN
     IF got.array
     THEN /\ calls' = [calls EXCEPT
                         ![c] = Returned(calls[c], "done", calls[c].posts + 1)]
          /\ postSelection(c, Finish(calls[c], got.comments))
     ELSE /\ calls' = [calls EXCEPT
                         ![c] = Returned(calls[c], "aborted", calls[c].posts)]
          /\ toPanel' = toPanel
  /\ UNCHANGED << hostUp, selection, slot, handlers, toHost >>
  /\ UNCHANGED panelVars
  /\ UNCHANGED pureVars

(* ---------------------------- host: figma.ui.onmessage ----------------- *)
\* code.ts:227-245: the handler runs up to its await
HostReceive ==
  /\ hostUp
  /\ toHost # <<>>
  /\ LET msg == Head(toHost) IN
       handlers' = Append(handlers,
                     [type |-> msg.type, token |-> msg.token,
                      state |-> "pending", val |-> Undef])
  /\ toHost' = Tail(toHost)
  /\ UNCHANGED << hostUp, selection, calls, slot, toPanel >>
  /\ UNCHANGED panelVars
  /\ UNCHANGED pureVars

\* the storage operation of a suspended handler takes effect
\* (setAsync code.ts:233, getAsync :238, deleteAsync :243)
StorageApply(i) ==
  /\ handlers[i].state = "pending"
  /\ slot' = CASE handlers[i].type = "saveToken"  -> handlers[i].token
               [] handlers[i].type = "clearToken" -> Undef
               [] OTHER -> slot
  /\ handlers' = [handlers EXCEPT ![i].state = "applied", ![i].val = slot']
  /\ UNCHANGED << hostUp, selection, calls, toPanel, toHost >>
  /\ UNCHANGED panelVars
  /\ UNCHANGED pureVars

\* variant: the token is posted without `|| ''`
Response_raw(h) ==
  CASE h.type = "saveToken"  -> PlainMsg("tokenSaved")
    [] h.type = "clearToken" -> PlainMsg("tokenCleared")
    [] h.type = "getToken"   -> TokenMsg("token", h.val)

\* code.ts:234,239,244: the response of a handler
Response(h) ==
  CASE h.type = "saveToken"  -> PlainMsg("tokenSaved")
    [] h.type = "clearToken" -> PlainMsg("tokenCleared")
    [] h.type = "getToken"   ->
         TokenMsg("token", IF Truthy(h.val) THEN h.val ELSE "")

\* the awaited promise resolves and the handler posts its response
HandlerResume(i) ==
  /\ handlers[i].state = "applied"
  /\ toPanel' = Append(toPanel, Response(handlers[i]))
  /\ handlers' = Remove(handlers, i)
  /\ UNCHANGED << hostUp, selection, calls, slot, toHost >>
  /\ UNCHANGED panelVars
  /\ UNCHANGED pureVars

(* ---------------------------- panel ------------------------------------ *)
\* App.tsx:251-283: the mount effect
Mount ==
  /\ hostUp
  /\ ~mounted
  /\ mounted' = TRUE
  /\ toHost' = Append(toHost, PlainMsg("getToken"))
  /\ UNCHANGED << pSelection, accessToken, tokenInput, showSettings, clicks >>
  /\ UNCHANGED << toPanel >>
  /\ UNCHANGED hostVars
  /\ UNCHANGED pureVars

\* a message that arrives before the listener is registered is lost
DropUnmounted ==
  /\ ~mounted
  /\ toPanel # <<>>
  /\ toPanel' = Tail(toPanel)
  /\ UNCHANGED << toHost >>
  /\ UNCHANGED panelVars
  /\ UNCHANGED hostVars
  /\ UNCHANGED pureVars

\* variant: a null selection is ignored
handleMessage_keepOnNull(msg) ==
  /\ pSelection' = IF msg.type = "selection" /\ ~msg.data.isNull
                   THEN msg.data ELSE pSelection
  /\ accessToken' = CASE msg.type = "token" -> msg.token
                      [] msg.type = "tokenCleared" -> ""
                      [] OTHER -> accessToken
  /\ tokenInput' = CASE msg.type = "token" -> msg.token
                     [] msg.type = "tokenCleared" -> ""
                     [] OTHER -> tokenInput
  /\ showSettings' = IF msg.type = "tokenSaved" THEN FALSE ELSE showSettings
  /\ toHost' = IF msg.type = "tokenSaved"
               THEN Append(toHost, PlainMsg("getToken"))
               ELSE toHost

\* variant: tokenSaved only closes the settings view
handleMessage_noRefresh(msg) ==
  /\ pSelection' = IF msg.type = "selection" THEN msg.data ELSE pSelection
  /\ accessToken' = CASE msg.type = "token" -> msg.token
                      [] msg.type = "tokenCleared" -> ""
                      [] OTHER -> accessToken
  /\ tokenInput' = CASE msg.type = "token" -> msg.token
                     [] msg.type = "tokenCleared" -> ""
                     [] OTHER -> tokenInput
  /\ showSettings' = IF msg.type = "tokenSaved" THEN FALSE ELSE showSettings
  /\ toHost' = toHost

\* App.tsx:256-279
handleMessage(msg) ==
  /\ pSelection' = IF msg.type = "selection" THEN msg.data ELSE pSelection
  /\ accessToken' = CASE msg.type = "token" -> msg.token
                      [] msg.type = "tokenCleared" -> ""
                      [] OTHER -> accessToken
  /\ tokenInput' = CASE msg.type = "token" -> msg.token
                     [] msg.type = "tokenCleared" -> ""
                     [] OTHER -> tokenInput
  /\ showSettings' = IF msg.type = "tokenSaved" THEN FALSE ELSE showSettings
  /\ toHost' = IF msg.type = "tokenSaved"
               THEN Append(toHost, PlainMsg("getToken"))
               ELSE toHost

Deliver ==
  /\ mounted
  /\ toPanel # <<>>
  /\ handleMessage(Head(toPanel))
  /\ toPanel' = Tail(toPanel)
  /\ UNCHANGED << mounted, clicks >>
  /\ UNCHANGED hostVars
  /\ UNCHANGED pureVars

\* App.tsx:300
ToggleSettings ==
  /\ mounted
  /\ showSettings' = ~showSettings
  /\ UNCHANGED << mounted, pSelection, accessToken, tokenInput, clicks >>
  /\ UNCHANGED << toPanel, toHost >>
  /\ UNCHANGED hostVars
  /\ UNCHANGED pureVars

\* App.tsx:333-336
TypeToken(t) ==
  /\ mounted
  /\ showSettings
  /\ t # tokenInput
  /\ tokenInput' = t
  /\ UNCHANGED << mounted, pSelection, accessToken, showSettings, clicks >>
  /\ UNCHANGED << toPanel, toHost >>
  /\ UNCHANGED hostVars
  /\ UNCHANGED pureVars

\* App.tsx:220-222,348-349
saveToken ==
  /\ mounted
  /\ showSettings
  /\ clicks < MaxClicks
  /\ clicks' = clicks + 1
  /\ toHost' = Append(toHost, TokenMsg("saveToken", tokenInput))
  /\ UNCHANGED << mounted, pSelection, accessToken, tokenInput, showSettings >>
  /\ UNCHANGED << toPanel >>
  /\ UNCHANGED hostVars
  /\ UNCHANGED pureVars

\* App.tsx:362-366
clearToken ==
  /\ mounted
  /\ showSettings
  /\ accessToken # ""
  /\ clicks < MaxClicks
  /\ clicks' = clicks + 1
  /\ toHost' = Append(toHost, PlainMsg("clearToken"))
  /\ UNCHANGED << mounted, pSelection, accessToken, tokenInput, showSettings >>
  /\ UNCHANGED << toPanel >>
  /\ UNCHANGED hostVars
  /\ UNCHANGED pureVars

\* App.tsx:385
emptyState == pSelection.isNull \/ Len(pSelection.nodes) = 0

(* ---------------------------- specification ---------------------------- *)
SelectionChangeAny == \E s \in Selections : SelectionChange(s)
ExportSettleAny ==
  \E c \in 1..Len(calls) : \E i \in 1..Len(calls[c].sel) :
    \E ok \in BOOLEAN : ExportSettle(c, i, ok)
ExportsDoneAny == \E c \in 1..Len(calls) : ExportsDone(c)
GetAsyncResolveAny == \E c \in 1..Len(calls) : GetAsyncResolve(c)
FetchSettleAny ==
  \E c \in 1..Len(calls) : \E r \in Responses : FetchSettle(c, r)
StorageApplyAny == \E i \in 1..Len(handlers) : StorageApply(i)
HandlerResumeAny == \E i \in 1..Len(handlers) : HandlerResume(i)
TypeTokenAny == \E t \in Tokens : TypeToken(t)

Next ==
  \/ Startup
  \/ SelectionChangeAny
  \/ ExportSettleAny
  \/ ExportsDoneAny
  \/ GetAsyncResolveAny
  \/ FetchSettleAny
  \/ HostReceive
  \/ StorageApplyAny
  \/ HandlerResumeAny
  \/ Mount
  \/ DropUnmounted
  \/ Deliver
  \/ ToggleSettings
  \/ TypeTokenAny
  \/ saveToken
  \/ clearToken

\* the whole plugin; the properties below are checked on the two parts
\* of it that follow, which share every action definition with it
Spec == Init /\ [][Next]_vars

\* the selection pipeline: every action but the user's token actions
NextSel ==
  \/ Startup
  \/ SelectionChangeAny
  \/ ExportSettleAny
  \/ ExportsDoneAny
  \/ GetAsyncResolveAny
  \/ FetchSettleAny
  \/ HostReceive
  \/ StorageApplyAny
  \/ HandlerResumeAny
  \/ Mount
  \/ DropUnmounted
  \/ Deliver

SelSpec == Init /\ [][NextSel]_vars

\* the token bridge: every action but later selection changes, started
\* with nothing selected
NextTok ==
  \/ Startup
  \/ HostReceive
  \/ StorageApplyAny
  \/ HandlerResumeAny
  \/ Mount
  \/ DropUnmounted
  \/ Deliver
  \/ ToggleSettings
  \/ TypeTokenAny
  \/ saveToken
  \/ clearToken

TokInit == Init /\ selection = <<>>

TokSpec == TokInit /\ [][NextTok]_vars

\* the event loop runs every queued handler and every awaited host
\* operation settles
FairTokSpec ==
  /\ TokSpec
  /\ WF_vars(HostReceive)
  /\ WF_vars(StorageApplyAny)
  /\ WF_vars(HandlerResumeAny)
  /\ WF_vars(Deliver)

(* ---------------------------- properties ------------------------------- *)
Ids(d) == [i \in 1..Len(d.nodes) |-> d.nodes[i].id]
returned(c) == c.pc \in {"done", "aborted"}
IsWrite(m) == m.type \in {"saveToken", "clearToken"}
IsGet(m) == m.type = "getToken"
IsTokenResponse(m) == m.type \in {"token", "tokenSaved", "tokenCleared"}
Quiet == toPanel = <<>> /\ toHost = <<>> /\ handlers = <<>>

\* C1: reports are not sequenced against newer selection changes: an
\* invocation that is no longer the latest one still posts its own report
\* when its export and comment fetch complete, behind the report of the
\* newer selection.
C1_StaleReportStillPosted ==
  [][ \A c \in 1..Len(calls) :
        ( /\ c < Len(calls)
          /\ calls[c].pc \in {"getAsync", "fetch"}
          /\ calls'[c].pc = "done" )
        => /\ Len(toPanel') = Len(toPanel) + 1
           /\ Last(toPanel').type = "selection"
           /\ ~Last(toPanel').data.isNull
           /\ Ids(Last(toPanel').data) = calls[c].sel ]_vars

\* C1 witness: everything has settled and been delivered, and the panel
\* displays the nodes of an earlier selection, not the host's current one.
C1_StaleDisplayed ==
  /\ mounted
  /\ toPanel = <<>>
  /\ Len(calls) >= 2
  /\ \A c \in 1..Len(calls) : calls[c].pc = "done"
  /\ ~pSelection.isNull
  /\ Ids(pSelection) # selection

\* C2: every invocation of sendSelectionToUI that has ended has posted
\* exactly one 'selection' message and one that has not ended has posted
\* none.
C2_ExactlyOneMessagePerEvent ==
  \A c \in 1..Len(calls) :
    calls[c].posts = IF returned(calls[c]) THEN 1 ELSE 0

\* C3: an invocation with an empty selection posts data null at once and
\* starts no export and no fetch; the panel that receives data null
\* replaces its selection by it and shows the empty state, and the panel
\* that receives an array of records does not.
C3_EmptySelectionReport ==
  [][ /\ ( Len(calls') = Len(calls) + 1 /\ selection' = <<>> )
         => LET k == Last(calls') IN
              /\ k.pc = "done"
              /\ k.exp = <<>>
              /\ k.reqs = 0
              /\ k.posts = 1
              /\ toPanel' = Append(toPanel, SelectionMsg(NullData))
      /\ ( /\ mounted
           /\ toPanel # <<>>
           /\ Head(toPanel) = SelectionMsg(NullData)
           /\ toPanel' = Tail(toPanel) )
         => pSelection' = NullData /\ emptyState'
      /\ ( /\ mounted
           /\ toPanel # <<>>
           /\ Head(toPanel).type = "selection"
           /\ ~Head(toPanel).data.isNull
           /\ toPanel' = Tail(toPanel) )
         => pSelection' = Head(toPanel).data /\ ~emptyState' ]_vars

\* C3 witness: the panel had a report to display, nothing is selected any
\* more, and the panel shows the empty state.
C3_EmptyShownAfterReport ==
  /\ mounted
  /\ selection = <<>>
  /\ toPanel = <<>>
  /\ Len(calls) >= 2
  /\ calls[1].n > 0 /\ calls[1].pc = "done"
  /\ Last(calls).n = 0
  /\ pSelection.isNull
  /\ emptyState

\* C4: a failed or unsupported export never ends the invocation: it goes
\* on to the comment fetch, and the report it posts has one record per
\* selected node, in order, with svg present exactly on the nodes whose
\* export succeeded.
C4_ExportFailureDoesNotAbort ==
  [][ \A c \in 1..Len(calls) :
        /\ calls[c].pc = "export" => calls'[c].pc \in {"export", "getAsync"}
        /\ ( calls[c].pc \in {"getAsync", "fetch"} /\ calls'[c].pc = "done" )
           => LET d == Last(toPanel').data IN
                /\ Len(toPanel') = Len(toPanel) + 1
                /\ Len(d.nodes) = Len(calls[c].sel)
                /\ \A i \in 1..Len(calls[c].sel) :
                     /\ d.nodes[i].id = calls[c].sel[i]
                     /\ d.nodes[i].svg <=> calls[c].exp[i] = "ok"
                     /\ d.nodes[i].svg => calls[c].sel[i] \in Exportable
      ]_vars

\* C4 witness: the panel displays a report in which one node has its svg,
\* one exportable node has none (its export failed) and one node does not
\* support export.
C4_PartialExportDisplayed ==
  /\ ~pSelection.isNull
  /\ \E i, j, k \in 1..Len(pSelection.nodes) :
       /\ pSelection.nodes[i].svg
       /\ ~pSelection.nodes[j].svg /\ pSelection.nodes[j].id \in Exportable
       /\ pSelection.nodes[k].id \notin Exportable

\* C5: when getAsync resolves with no value or the empty string,
\* fetchComments issues no HTTP request and returns [], so the report is
\* posted at once with no comments.
C5_NoTokenNoRequest ==
  [][ \A c \in 1..Len(calls) :
        ( /\ calls[c].pc = "getAsync"
          /\ calls'[c].pc # "getAsync"
          /\ slot \in {Undef, ""} )
        => /\ calls'[c].pc = "done"
           /\ calls'[c].reqs = 0
           /\ Len(toPanel') = Len(toPanel) + 1
           /\ \A i \in 1..Len(Last(toPanel').data.nodes) :
                Last(toPanel').data.nodes[i].comments = <<>> ]_vars

\* C5 witness: the slot holds the empty string and a non-empty selection
\* has been reported without any request.
C5_ReportedWithoutRequest ==
  /\ slot = ""
  /\ Len(calls) = 1
  /\ calls[1].n > 0 /\ calls[1].pc = "done" /\ calls[1].reqs = 0
  /\ Len(toPanel) = 1 /\ ~toPanel[1].data.isNull

\* C6: once the HTTP request of an invocation has settled, whatever it
\* came back with, the invocation has posted its report.
C6_FailedFetchStillReports ==
  \A c \in 1..Len(calls) :
    ( calls[c].reqs = 1 /\ calls[c].pc # "fetch" )
    => calls[c].pc = "done" /\ calls[c].posts = 1

\* C7 as stated: every invocation that began while a token was stored has
\* issued exactly one HTTP request by the time it ends.
C7_EveryEventFetchesOnce ==
  \A c \in 1..Len(calls) :
    ( returned(calls[c]) /\ calls[c].atStart ) => calls[c].reqs = 1

\* C7 amended: an invocation with a non-empty selection issues exactly one
\* HTTP request when fetchComments reads a non-empty token and none
\* otherwise, an invocation with an empty selection issues none; the
\* request is issued when getAsync resolves and at no other time, whatever
\* earlier invocations fetched and however the request ends.
C7_NonEmptyReportFetchesOnce ==
  [][ \A c \in 1..Len(calls') :
        LET k == calls'[c] IN
          /\ k.reqs <= 1
          /\ k.n = 0 => k.reqs = 0
          /\ ( returned(k) /\ k.n > 0 )
             => k.reqs = IF k.tokRead THEN 1 ELSE 0
          /\ c <= Len(calls) =>
               /\ k.reqs # calls[c].reqs
                  => calls[c].pc = "getAsync" /\ slot \notin {Undef, ""}
               /\ ( calls[c].pc = "getAsync" /\ k.pc # "getAsync" )
                  => /\ k.reqs = IF slot \in {Undef, ""} THEN 0 ELSE 1
                     /\ k.tokRead = (slot \notin {Undef, ""}) ]_vars

\* C7 witness: two invocations have ended and each issued its own request.
C7_TwoFreshFetches ==
  /\ Len(calls) >= 2
  /\ returned(calls[1]) /\ calls[1].reqs = 1
  /\ returned(calls[2]) /\ calls[2].reqs = 1

\* the response the bridge owes to the request of handler h
ExpectedResponse(h) ==
  CASE h.type = "saveToken"  -> PlainMsg("tokenSaved")
    [] h.type = "clearToken" -> PlainMsg("tokenCleared")
    [] h.type = "getToken"   ->
         TokenMsg("token", IF h.val = Undef THEN "" ELSE h.val)

\* C8: a request starts one storage operation and posts nothing; the
\* operation does what the request asks (saveToken writes its token,
\* clearToken empties the slot, getToken reads the slot); the one typed
\* response is posted when the operation has taken effect, and no token
\* response is posted otherwise.
C8_OneTypedResponsePerRequest ==
  [][ /\ Len(handlers') > Len(handlers)
         => /\ toPanel' = toPanel
            /\ slot' = slot
            /\ Last(handlers').state = "pending"
      /\ Len(handlers') < Len(handlers)
         => \E i \in 1..Len(handlers) :
              /\ handlers[i].state = "applied"
              /\ handlers' = Remove(handlers, i)
              /\ toPanel' = Append(toPanel, ExpectedResponse(handlers[i]))
      /\ Len(SelectSeq(toPanel', IsTokenResponse))
           > Len(SelectSeq(toPanel, IsTokenResponse))
         => Len(handlers') = Len(handlers) - 1
      /\ Len(handlers') = Len(handlers)
         => \A i \in 1..Len(handlers) :
              ( handlers[i].state = "pending"
                /\ handlers'[i].state = "applied" )
              => /\ handlers[i].type = "saveToken"
                    => slot' = handlers[i].token
                 /\ handlers[i].type = "clearToken" => slot' = Undef
                 /\ handlers[i].type = "getToken"
                    => slot' = slot /\ handlers'[i].val = slot
      /\ slot' # slot
         => \E i \in 1..Len(handlers) :
              /\ IsWrite(handlers[i])
              /\ handlers[i].state = "pending"
              /\ Len(handlers') = Len(handlers)
              /\ handlers'[i].state = "applied" ]_vars

\* C8 witness: a token typed and saved by the user is on its way back to
\* the panel in a token response.
C8_SavedTokenReturned ==
  /\ slot = "a"
  /\ \E i \in 1..Len(toPanel) : toPanel[i] = TokenMsg("token", "a")

\* C9: at most one write of the slot (setAsync or deleteAsync) is in
\* flight at any time.
C9_NoConcurrentWrites ==
  Cardinality({ i \in 1..Len(handlers) :
                  IsWrite(handlers[i]) /\ handlers[i].state = "pending" }) <= 1

\* the writes of the slot that are under way: requests on their way to the
\* host and handlers that have not resumed
WritesUnderWay == SelectSeq(toHost, IsWrite) \o SelectSeq(handlers, IsWrite)

\* a saveToken of t that has not yet been written is the only write under
\* way and no confirmation of an earlier write is still to be delivered
SoleSave(t) ==
  /\ Len(WritesUnderWay) = 1
  /\ WritesUnderWay[1].type = "saveToken"
  /\ WritesUnderWay[1].token = t
  /\ \A i \in 1..Len(handlers) :
       IsWrite(handlers[i]) => handlers[i].state = "pending"
  /\ \A i \in 1..Len(toPanel) :
       toPanel[i].type \notin {"tokenSaved", "tokenCleared"}

\* another save or clear is under way next to, or after, the save of t
OtherWrite(t) ==
  \/ Len(WritesUnderWay) >= 2
  \/ /\ Len(WritesUnderWay) = 1
     /\ \/ WritesUnderWay[1].type # "saveToken"
        \/ WritesUnderWay[1].token # t

TokenSavedDelivered ==
  /\ mounted
  /\ toPanel # <<>>
  /\ Head(toPanel).type = "tokenSaved"
  /\ toPanel' = Tail(toPanel)

\* C10: the panel that receives tokenSaved closes the settings view and
\* sends one getToken; getToken is sent once at mount and once per
\* tokenSaved received and at no other time; and a save that is the only
\* write under way leads to accessToken being the saved token, unless
\* another save or clear gets under way first.
C10_RefreshAfterSave ==
  /\ [][ /\ TokenSavedDelivered
            => /\ showSettings' = FALSE
               /\ toHost' = Append(toHost, PlainMsg("getToken"))
         /\ Len(SelectSeq(toHost', IsGet)) > Len(SelectSeq(toHost, IsGet))
            => /\ toHost' = Append(toHost, PlainMsg("getToken"))
               /\ (~mounted /\ mounted') \/ TokenSavedDelivered ]_vars
  /\ \A t \in Tokens \cup {Stored} :
       SoleSave(t) ~> (accessToken = t \/ OtherWrite(t))

\* C10 witness: one save of "a" over a slot that held another token, all
\* messages delivered, and the panel holds the saved token.
C10_PanelHoldsSavedToken ==
  /\ clicks = 1
  /\ Quiet
  /\ slot = "a"
  /\ accessToken = "a"
  /\ ~showSettings

(* ---------------------------- values of the single functions ---------- *)
\* Text is a sequence of one-character strings, so that the functions that
\* look inside a name can be computed as the code computes them.  Lengths
\* of the host are in quarters of a pixel (a host width of 1 is 0.25px), so
\* that Math.round has something to round.

\* an object with no own property ({} in the code)
NoFields == [k \in {} |-> 0]

\* the property k with value v when c holds, nothing otherwise
Field(c, k, v) == IF c THEN k :> v ELSE NoFields

\* an optional number: a parameter that was not passed is undefined
undefined == [def |-> FALSE, v |-> 0]

Num(n) == [def |-> TRUE, v |-> n]

\* code.ts:137,140 `if (parentWidth)`: undefined and 0 are falsy
TruthyNum(d) == d.def /\ d.v # 0

\* Math.round of q quarters: the nearest integer, a half rounded up
round(q) == (q + 2) \div 4

UpperCase ==
  << "A", "B", "C", "D", "E", "F", "G", "H", "I", "J", "K", "L", "M",
     "N", "O", "P", "Q", "R", "S", "T", "U", "V", "W", "X", "Y", "Z" >>

LowerCase ==
  << "a", "b", "c", "d", "e", "f", "g", "h", "i", "j", "k", "l", "m",
     "n", "o", "p", "q", "r", "s", "t", "u", "v", "w", "x", "y", "z" >>

Digits == << "0", "1", "2", "3", "4", "5", "6", "7", "8", "9" >>

Range(s) == { s[i] : i \in 1..Len(s) }

\* String.prototype.toLowerCase, character by character
toLowerCase(s) ==
  [i \in 1..Len(s) |->
     IF s[i] \in Range(UpperCase)
     THEN LowerCase[CHOOSE j \in 1..Len(UpperCase) : UpperCase[j] = s[i]]
     ELSE s[i]]

\* variant: the word is only looked for at the start
includes_atStart(s, w) ==
  Len(w) <= Len(s) /\ SubSeq(s, 1, Len(w)) = w

\* String.prototype.includes
includes(s, w) ==
  \E i \in 0..(Len(s) - Len(w)) : SubSeq(s, i + 1, i + Len(w)) = w

(* ---------------------------- host: inferComponentType ----------------- *)
\* the words the code looks for, and the categories it answers
W_button == << "b", "u", "t", "t", "o", "n" >>
W_btn == << "b", "t", "n" >>
W_input == << "i", "n", "p", "u", "t" >>
W_textfield == << "t", "e", "x", "t", "f", "i", "e", "l", "d" >>
W_map == << "m", "a", "p" >>
W_sheet == << "s", "h", "e", "e", "t" >>
W_modal == << "m", "o", "d", "a", "l" >>
W_pin == << "p", "i", "n" >>
W_marker == << "m", "a", "r", "k", "e", "r" >>
W_container == << "c", "o", "n", "t", "a", "i", "n", "e", "r" >>
T_FRAME == << "F", "R", "A", "M", "E" >>
T_GROUP == << "G", "R", "O", "U", "P" >>
T_TEXT == << "T", "E", "X", "T" >>
T_RECTANGLE == << "R", "E", "C", "T", "A", "N", "G", "L", "E" >>
T_LINE == << "L", "I", "N", "E" >>

\* code.ts:114-125: the tests are made in this order and the first that
\* holds returns
inferComponentType(node) ==
  LET name == toLowerCase(node.name) IN
  IF includes(name, W_button) \/ includes(name, W_btn) THEN W_button
  ELSE IF includes(name, W_input) \/ includes(name, W_textfield) THEN W_input
  ELSE IF includes(name, W_map) THEN W_map
  ELSE IF includes(name, W_sheet) \/ includes(name, W_modal) THEN W_sheet
  ELSE IF includes(name, W_pin) \/ includes(name, W_marker) THEN W_pin
  ELSE IF node.type = T_FRAME \/ node.type = T_GROUP THEN W_container
  ELSE toLowerCase(node.type)

(* ---------------------------- host: extractColor, serializeNode -------- *)
HexDigits ==
  << "0", "1", "2", "3", "4", "5", "6", "7", "8", "9",
     "a", "b", "c", "d", "e", "f" >>

\* n.toString(16).padStart(2, '0') for n in 0..255
hex2(n) == HexDigits[(n \div 16) + 1] \o HexDigits[(n % 16) + 1]

\* Math.round(c * 255) for a channel of c quarters (0, 0.25, .. 1)
channel(c) == (c * 255 + 2) \div 4

\* an opacity of t tenths as the template prints it
opacityText(t) ==
  IF t = 0 THEN "0" ELSE IF t = 10 THEN "1" ELSE "0." \o ToString(t)

\* code.ts:97-112; fills is [mixed, paints], a paint is [type, visible,
\* opacity (an optional number of tenths), color]; undefined is returned
\* as the optional value with def = FALSE
extractColor(fills) ==
  IF fills.mixed \/ Len(fills.paints) = 0
  THEN [def |-> FALSE, v |-> ""]
  ELSE LET found == SelectSeq(fills.paints,
                      LAMBDA f : f.type = "SOLID" /\ f.visible)
       IN IF found = <<>>
          THEN [def |-> FALSE, v |-> ""]
          ELSE LET solidFill == Head(found)
                   r == channel(solidFill.color[1])
                   g == channel(solidFill.color[2])
                   b == channel(solidFill.color[3])
                   a == IF solidFill.opacity.def
                        THEN solidFill.opacity.v ELSE 10
               IN IF a = 10
                  THEN [def |-> TRUE,
                        v |-> "#" \o hex2(r) \o hex2(g) \o hex2(b)]
                  ELSE [def |-> TRUE,
                        v |-> "rgba(" \o ToString(r) \o ", " \o ToString(g)
                                \o ", " \o ToString(b) \o ", "
                                \o opacityText(a) \o ")"]

\* variant: the empty style and props are kept
cleanUp_keep(element) == element

\* code.ts:183-189: style and props are deleted when they have no key
cleanUp(element) ==
  LET dropped == { k \in {"style", "props"} : DOMAIN element[k] = {} }
  IN [k \in DOMAIN element \ dropped |-> element[k]]

\* code.ts:127-192; a host object is a function from the properties it has
\* ('width' in node is "width" \in DOMAIN node), and so is the record made
RECURSIVE serializeNode(_, _, _)
serializeNode(node, parentWidth, parentHeight) ==
  LET has(k) == k \in DOMAIN node
      bgColor == IF has("fills") THEN extractColor(node.fills)
                 ELSE [def |-> FALSE, v |-> ""]
      style ==
        Field(TruthyNum(parentWidth), "parentWidth", parentWidth.v)
        @@ Field(TruthyNum(parentHeight), "parentHeight", parentHeight.v)
        @@ Field(has("width") /\ node.width # 0, "width",
                 IF has("width") THEN round(node.width) ELSE 0)
        @@ Field(has("height") /\ node.height # 0, "height",
                 IF has("height") THEN round(node.height) ELSE 0)
        @@ Field(has("x") /\ has("y"), "left",
                 IF has("x") THEN round(node.x) ELSE 0)
        @@ Field(has("x") /\ has("y"), "top",
                 IF has("y") THEN round(node.y) ELSE 0)
        @@ Field(bgColor.def /\ bgColor.v # "", "backgroundColor", bgColor.v)
        @@ Field(has("cornerRadius") /\ ~node.cornerRadius.mixed,
                 "borderRadius",
                 IF has("cornerRadius") THEN round(node.cornerRadius.v)
                 ELSE 0)
      props == Field(has("characters"), "text",
                     IF has("characters") THEN node.characters ELSE <<>>)
      w == IF has("width") THEN Num(round(node.width)) ELSE undefined
      h == IF has("height") THEN Num(round(node.height)) ELSE undefined
      hasChildren == IF has("children") THEN Len(node.children) > 0
                     ELSE FALSE
  IN cleanUp(
       ("id" :> node.id)
       @@ ("type" :> inferComponentType(node))
       @@ ("name" :> node.name)
       @@ ("style" :> style)
       @@ ("props" :> props)
       @@ Field(hasChildren, "children",
                IF hasChildren
                THEN [i \in 1..Len(node.children) |->
                        serializeNode(node.children[i], w, h)]
                ELSE <<>>))

(* ---------------------------- host objects studied --------------------- *)
\* the most children a host object has
MaxKids == 2

Obj(id, type, name) == ("id" :> id) @@ ("type" :> type) @@ ("name" :> name)

Geo(x, y, width, height) ==
  ("x" :> x) @@ ("y" :> y) @@ ("width" :> width) @@ ("height" :> height)

Paint(type, visible, opacity, color) ==
  [type |-> type, visible |-> visible, opacity |-> opacity, color |-> color]

Fills(paints) == "fills" :> [mixed |-> FALSE, paints |-> paints]

MixedFills == "fills" :> [mixed |-> TRUE, paints |-> <<>>]

Radius(q) == "cornerRadius" :> [mixed |-> FALSE, v |-> q]

MixedRadius == "cornerRadius" :> [mixed |-> TRUE, v |-> 0]

\* geometry in quarters of a pixel: 81px from the left of a 200px parent
\* and 40px wide; 10px from the left and 20px wide; a vertical line; a
\* horizontal line; a sliver that rounds to nothing; values at a half
gCentred == Geo(324, 40, 160, 80)
gExample == Geo(40, 0, 80, 80)
gLine == Geo(40, 40, 0, 160)
gFlat == Geo(0, 40, 160, 0)
gTiny == Geo(1, 2, 1, 1)
gHalf == Geo(-2, -42, 6, 10)
gParent == Geo(0, 0, 800, 400)

Geoms == { NoFields, gCentred, gExample, gLine, gFlat, gTiny, gHalf, gParent }

ParentGeoms == { NoFields, gParent, gTiny, gLine }

dSlice == Obj("1:3", << "S", "L", "I", "C", "E" >>, << "c", "u", "t" >>)

dButton ==
  Obj("1:4", T_RECTANGLE,
      << "M", "y", " ", "B", "u", "t", "t", "o", "n", "!", "!", " ", "2" >>)
  @@ Fills(<< Paint("SOLID", TRUE, undefined, << 4, 2, 0 >>) >>)
  @@ Radius(18)

dCard ==
  Obj("1:5", T_RECTANGLE, << "c", "a", "r", "d", "_", "b", "g" >>)
  @@ Fills(<< >>) @@ MixedRadius

dLabel ==
  Obj("1:6", T_TEXT, << "L", "a", "b", "e", "l" >>)
  @@ Fills(<< Paint("SOLID", TRUE, Num(5), << 1, 1, 1 >>) >>)
  @@ ("characters" :> << "H", "i" >>)

dBlank ==
  Obj("1:7", T_TEXT, << "M", "a", "p", " ", "t", "i", "t", "l", "e" >>)
  @@ MixedFills @@ ("characters" :> << >>)

dHidden ==
  Obj("1:8", T_RECTANGLE, << "-", "x", "-" >>)
  @@ Fills(<< Paint("SOLID", FALSE, undefined, << 4, 4, 4 >>),
              Paint("GRADIENT_LINEAR", TRUE, undefined, << 0, 0, 0 >>) >>)
  @@ Radius(0)

dEmpty ==
  Obj("1:9", T_FRAME, << "E", "m", "p", "t", "y" >>)
  @@ Fills(<< >>) @@ ("children" :> << >>)

Decors == { dSlice, dButton, dCard, dLabel, dBlank, dHidden, dEmpty }

Leaves == { d @@ g : d \in Decors, g \in Geoms }

Kids == { d @@ g : d \in {dSlice, dLabel},
                   g \in {NoFields, gCentred, gExample, gLine, gTiny} }

KidSeqs == UNION { [1..n -> Kids] : n \in 1..MaxKids }

Frame(id, name, g, kids) ==
  Obj(id, T_FRAME, name) @@ g @@ Fills(<< >>) @@ ("children" :> kids)

Mids == { Frame("1:2", << "R", "o", "w" >>, g, kids) :
            g \in ParentGeoms, kids \in KidSeqs }

PageKids == { dSlice @@ gExample, dLabel @@ gCentred }

Pages == { Frame("1:1", << "P", "a", "g", "e" >>, g, << m >>) :
             g \in ParentGeoms,
             m \in { n \in Mids : \/ Len(n.children) = 1
                                  \/ Range(n.children) \subseteq PageKids } }

HostTrees == Leaves \cup Mids \cup Pages

(* ---------------------------- panel: sanitizeClassName ----------------- *)
\* the characters the class [^a-zA-Z0-9-_] does not match: after the range
\* 0-9 the hyphen and the underscore stand for themselves
WordChars ==
  Range(UpperCase) \cup Range(LowerCase) \cup Range(Digits) \cup {"-", "_"}

\* App.tsx:149 .replace(/[^a-zA-Z0-9-_]/g, '-')
replaceOthers(s) ==
  [i \in 1..Len(s) |-> IF s[i] \in WordChars THEN s[i] ELSE "-"]

\* App.tsx:149 .replace(/^-+|-+$/g, ''): the hyphens before the first and
\* after the last other character go; a text of hyphens only becomes empty
trimHyphens(s) ==
  LET others == { i \in 1..Len(s) : s[i] # "-" } IN
  IF others = {} THEN <<>>
  ELSE SubSeq(s, CHOOSE i \in others : \A j \in others : i <= j,
                 CHOOSE i \in others : \A j \in others : i >= j)

\* variant: hyphens that follow each other are left as they are
collapseHyphens_keep(s) == s

\* App.tsx:149 .replace(/-+/g, '-'): of hyphens that follow each other the
\* first stays
collapseHyphens(s) ==
  LET stay == SelectSeq([i \in 1..Len(s) |-> i],
                        LAMBDA i : i = 1 \/ s[i] # "-" \/ s[i - 1] # "-")
  IN [k \in 1..Len(stay) |-> s[stay[k]]]

\* App.tsx:148-150
sanitizeClassName(name) ==
  collapseHyphens(trimHyphens(replaceOthers(name)))

(* ---------------------------- panel: generateHTML --------------------- *)
\* The markup is the sequence of its lines (the code joins them with
\* '\n'); a line is its indentation in steps of two spaces and what stands
\* on it: an element opened and closed ("element"), an opening tag
\* ("open"), a text ("text") or a closing tag ("close").  A declaration of
\* the style attribute is kept as property and value, which the code joins
\* with ': ', and the declarations as the list the code joins with '; '.
Line(indent, kind, className, styles, text) ==
  [indent |-> indent, kind |-> kind, class |-> className,
   styles |-> styles, text |-> text]

Decl(prop, value) == [prop |-> prop, value |-> value]

\* styles.push(d) when c holds
Push(c, d) == IF c THEN << d >> ELSE << >>

px(n) == ToString(n) \o "px"

\* (num / den * 100).toFixed(2) followed by '%', for den > 0: the sign,
\* then the hundredths nearest to the magnitude, a half rounded up
toFixed2(num, den) ==
  LET mag == IF num < 0 THEN 0 - num ELSE num
      hundredths == (2 * mag * 10000 + den) \div (2 * den)
      cents == hundredths % 100
  IN (IF num < 0 THEN "-" ELSE "")
     \o ToString(hundredths \div 100) \o "."
     \o (IF cents < 10 THEN "0" ELSE "") \o ToString(cents)

pct(num, den) == toFixed2(num, den) \o "%"

\* App.tsx:170-172: Math.abs(left + width / 2 - pw / 2) < 5, in halves
isCentered(left, width, pw) ==
  LET twice == 2 * left + width - pw
  IN (IF twice < 0 THEN 0 - twice ELSE twice) < 10

\* App.tsx:154,157-200: the declarations of one node; a number is truthy
\* when it is recorded and not 0
styles(node, isRoot) ==
  LET style == IF "style" \in DOMAIN node THEN node.style ELSE NoFields
      truthy(k) == k \in DOMAIN style /\ style[k] # 0
      pw == IF truthy("parentWidth") THEN style.parentWidth ELSE 0
      ph == IF truthy("parentHeight") THEN style.parentHeight ELSE 0
      position ==
        IF isRoot
        THEN << Decl("position", "relative") >>
             \o Push(truthy("width"),
                     Decl("width", IF truthy("width") THEN px(style.width)
                                   ELSE ""))
             \o Push(truthy("height"),
                     Decl("height", IF truthy("height") THEN px(style.height)
                                    ELSE ""))
        ELSE << Decl("position", "absolute") >>
             \o ( IF pw # 0 /\ "left" \in DOMAIN style /\ truthy("width")
                  THEN IF isCentered(style.left, style.width, pw)
                       THEN << Decl("left", "50%"),
                               Decl("transform", "translateX(-50%)") >>
                       ELSE << Decl("left", pct(style.left, pw)) >>
                  ELSE << >> )
             \o ( IF ph # 0 /\ "top" \in DOMAIN style
                  THEN << Decl("top", pct(style.top, ph)) >>
                  ELSE << >> )
             \o ( IF pw # 0 /\ truthy("width")
                  THEN << Decl("width", pct(style.width, pw)) >>
                  ELSE << >> )
             \o ( IF ph # 0 /\ truthy("height")
                  THEN << Decl("height", pct(style.height, ph)) >>
                  ELSE << >> )
  IN position
     \o ( IF "backgroundColor" \in DOMAIN style
          THEN Push(style.backgroundColor # "",
                    Decl("background-color", style.backgroundColor))
          ELSE << >> )
     \o ( IF truthy("borderRadius")
          THEN << Decl("border-radius", px(style.borderRadius)) >>
          ELSE << >> )

\* variant: only the first block is kept
join_first(parts) == IF parts = << >> THEN << >> ELSE Head(parts)

\* Array.prototype.join('\n') of blocks of lines: the lines one after the
\* other
RECURSIVE join(_)
join(parts) ==
  IF parts = << >> THEN << >> ELSE Head(parts) \o join(Tail(parts))

\* App.tsx:152-210
RECURSIVE generateHTML(_, _, _)
generateHTML(node, isRoot, indent) ==
  LET className == sanitizeClassName(node.name)
      textContent == IF "props" \in DOMAIN node
                     THEN IF "text" \in DOMAIN node.props
                          THEN node.props.text ELSE << >>
                     ELSE << >>
      children ==
        IF "children" \in DOMAIN node
        THEN join([i \in 1..Len(node.children) |->
                     generateHTML(node.children[i], FALSE, indent + 1)])
        ELSE << >>
  IN IF children # << >>
     THEN << Line(indent, "open", className, styles(node, isRoot), << >>) >>
          \o Push(textContent # << >>,
                  Line(indent + 1, "text", << >>, << >>, textContent))
          \o children
          \o << Line(indent, "close", << >>, << >>, << >>) >>
     ELSE << Line(indent, "element", className, styles(node, isRoot),
                  textContent) >>

(* ---------------------------- serializeNode and generateHTML applied --- *)
\* the host and the panel stay as they are before the plugin starts
SystemIdle ==
  /\ hostUp = FALSE
  /\ selection = <<>>
  /\ calls = <<>>
  /\ slot = Undef
  /\ handlers = <<>>
  /\ toPanel = <<>>
  /\ toHost = <<>>
  /\ mounted = FALSE
  /\ pSelection = NullData
  /\ accessToken = ""
  /\ tokenInput = ""
  /\ showSettings = FALSE
  /\ clicks = 0

TreeInit ==
  /\ SystemIdle
  /\ stage = "host"
  /\ arg \in HostTrees
  /\ res = <<>>
  /\ html = <<>>

\* code.ts:25: a selected object is serialized with no parent dimensions
Serialize ==
  /\ stage = "host"
  /\ res' = serializeNode(arg, undefined, undefined)
  /\ stage' = "record"
  /\ UNCHANGED << arg, html >>
  /\ UNCHANGED << toPanel, toHost >>
  /\ UNCHANGED hostVars
  /\ UNCHANGED panelVars

\* App.tsx:228,456: the markup of a selected record is generated with the
\* default arguments isRoot = true and indent = 0
Generate ==
  /\ stage = "record"
  /\ html' = generateHTML(res, TRUE, 0)
  /\ stage' = "markup"
  /\ UNCHANGED << arg, res >>
  /\ UNCHANGED << toPanel, toHost >>
  /\ UNCHANGED hostVars
  /\ UNCHANGED panelVars

NextTree ==
  \/ Serialize
  \/ Generate

TreeSpec == TreeInit /\ [][NextTree]_vars

(* ---------------------------- sanitizeClassName applied ---------------- *)
\* the longest name tried, beside the example of the specification
MaxNameLen == 3

NameChars == {"a", "B", "2", " ", "!", "-", "_"}

MyButton2 ==
  << "M", "y", " ", "B", "u", "t", "t", "o", "n", "!", "!", " ", "2" >>

Names == UNION { [1..n -> NameChars] : n \in 0..MaxNameLen } \cup {MyButton2}

NameInit ==
  /\ SystemIdle
  /\ stage = "name"
  /\ arg \in Names
  /\ res = <<>>
  /\ html = <<>>

\* App.tsx:153: the class label of a node is made from its name
Sanitize ==
  /\ stage = "name"
  /\ res' = sanitizeClassName(arg)
  /\ stage' = "label"
  /\ UNCHANGED << arg, html >>
  /\ UNCHANGED << toPanel, toHost >>
  /\ UNCHANGED hostVars
  /\ UNCHANGED panelVars

NextName ==
  \/ Sanitize

NameSpec == NameInit /\ [][NextName]_vars

(* ---------------------------- inferComponentType applied -------------- *)
\* the most pieces a name is made of
MaxPieces == 2

Pieces ==
  { << "M", "a", "p" >>, << "B", "U", "T", "T", "O", "N" >>, W_btn,
    << "I", "n", "p", "u", "t" >>, W_textfield, << "S", "h", "e", "e", "t" >>,
    W_modal, << "P", "i", "n" >>, W_marker, << "m", "a" >>, << "p" >>,
    << "x" >> }

\* the names made of n pieces
RECURSIVE PieceNames(_)
PieceNames(n) ==
  IF n = 0 THEN { << >> }
  ELSE { a \o b : a \in PieceNames(n - 1), b \in Pieces }

InferNames == UNION { PieceNames(n) : n \in 0..MaxPieces }

Types == { T_FRAME, T_GROUP, T_TEXT, T_RECTANGLE, T_LINE }

InferInit ==
  /\ SystemIdle
  /\ stage = "named"
  /\ arg \in { Obj("1:2", t, nm) : t \in Types, nm \in InferNames }
  /\ res = <<>>
  /\ html = <<>>

\* code.ts:130: the type of a record is inferred from the host object
Infer ==
  /\ stage = "named"
  /\ res' = inferComponentType(arg)
  /\ stage' = "typed"
  /\ UNCHANGED << arg, html >>
  /\ UNCHANGED << toPanel, toHost >>
  /\ UNCHANGED hostVars
  /\ UNCHANGED panelVars

NextInfer ==
  \/ Infer

InferSpec == InferInit /\ [][NextInfer]_vars

(* ---------------------------- comments attached ----------------------- *)
\* the positions in the fetched list of the comments that refer to id
Referring(fetched, id) == { k \in 1..Len(fetched) : fetched[k].node = id }

\* the j-th smallest member of a set of positions
Nth(ks, j) == CHOOSE k \in ks : Cardinality({ m \in ks : m < k }) = j - 1

\* C17: when a fetch that returned comments settles, the report posted
\* gives every record exactly the fetched comments that refer to its node,
\* in the order they were fetched; a comment that refers to no node or to a
\* node outside the selection is in no record, and no comment is in the
\* records of two nodes.
C17_CommentsPartitionedByNode ==
  [][ \A c \in 1..Len(calls) : \A r \in Responses :
        ( r.kind = "ok" /\ FetchSettle(c, r) ) =>
          LET d == Last(toPanel').data
              fetched == r.comments
              ids == { calls[c].sel[i] : i \in 1..Len(calls[c].sel) }
          IN /\ Len(d.nodes) = Len(calls[c].sel)
             /\ \A i \in 1..Len(d.nodes) :
                  LET ks == Referring(fetched, calls[c].sel[i])
                      got == d.nodes[i].comments
                  IN /\ d.nodes[i].id = calls[c].sel[i]
                     /\ Len(got) = Cardinality(ks)
                     /\ \A j \in 1..Len(got) : got[j] = fetched[Nth(ks, j)]
             /\ \A k \in 1..Len(fetched) :
                  fetched[k].node \notin ids =>
                    \A i \in 1..Len(d.nodes) :
                      fetched[k] \notin Range(d.nodes[i].comments)
             /\ \A i, j \in 1..Len(d.nodes) :
                  i # j => Range(d.nodes[i].comments)
                             \cap Range(d.nodes[j].comments) = {}
    ]_vars

\* the panel displays a report of three nodes in which the second has the
\* two comments that refer to it, in fetched order, the first has one and
\* the third none, while two fetched comments are in no record
C17_PartitionDisplayed ==
  /\ ~pSelection.isNull
  /\ Len(pSelection.nodes) = 3
  /\ pSelection.nodes[1].comments = << Comment(1, "n2") >>
  /\ pSelection.nodes[2].comments = << Comment(3, "n1"), Comment(5, "n1") >>
  /\ pSelection.nodes[3].comments = << >>

(* ---------------------------- records at every depth ------------------- *)
\* the places of a tree: the sequence of child positions leading to each
RECURSIVE Paths(_)
Paths(n) ==
  { <<>> } \cup
  ( IF "children" \in DOMAIN n
    THEN UNION { { << i >> \o p : p \in Paths(n.children[i]) } :
                 i \in 1..Len(n.children) }
    ELSE {} )

\* the object or record at a place
RECURSIVE At(_, _)
At(n, p) == IF p = <<>> THEN n ELSE At(n.children[Head(p)], Tail(p))

\* n is an integer nearest to q quarters
IsNearest(n, q) == 4 * n - q <= 2 /\ q - 4 * n <= 2

ExposesGeometry(n) == {"x", "y", "width", "height"} \subseteq DOMAIN n

\* C11: for every host object that exposes x, y, width and height, the
\* record made by serializeNode has style.left, style.top, style.width and
\* style.height, each the source value rounded to the nearest integer, also
\* when the source value is 0 or rounds to 0.
C11_GeometryRoundedToNearest ==
  stage = "record" =>
    \A p \in Paths(arg) :
      LET n == At(arg, p)
          e == At(res, p)
      IN ExposesGeometry(n) =>
           /\ "style" \in DOMAIN e
           /\ {"left", "top", "width", "height"} \subseteq DOMAIN e.style
           /\ IsNearest(e.style.left, n.x)
           /\ IsNearest(e.style.top, n.y)
           /\ IsNearest(e.style.width, n.width)
           /\ IsNearest(e.style.height, n.height)

Front(p) == SubSeq(p, 1, Len(p) - 1)

\* the host object has something serializeNode puts in style: a position,
\* a width or height that is not 0, a visible solid fill, a numeric corner
\* radius, or a parent whose rounded width or height is not 0
HasVisibleSolid(n) ==
  /\ "fills" \in DOMAIN n
  /\ ~n.fills.mixed
  /\ \E i \in 1..Len(n.fills.paints) :
       n.fills.paints[i].type = "SOLID" /\ n.fills.paints[i].visible

HasDimension(n, k) == k \in DOMAIN n /\ n[k] # 0

RoundsToNonZero(n, k) == k \in DOMAIN n /\ ~IsNearest(0, n[k])

HasStyleFact(tree, p) ==
  LET n == At(tree, p) IN
  \/ {"x", "y"} \subseteq DOMAIN n
  \/ HasDimension(n, "width") \/ HasDimension(n, "height")
  \/ HasVisibleSolid(n)
  \/ ("cornerRadius" \in DOMAIN n /\ ~n.cornerRadius.mixed)
  \/ /\ p # <<>>
     /\ \/ RoundsToNonZero(At(tree, Front(p)), "width")
        \/ RoundsToNonZero(At(tree, Front(p)), "height")

\* C12: in every record at every depth an optional sub-record is left out
\* rather than empty: style is present exactly when there is something to
\* put in it and is never an empty record, props is present exactly when
\* the host object has text and is never empty, children is present exactly
\* when the host object has children and is never an empty list.
C12_OptionalFieldsOmitted ==
  stage = "record" =>
    \A p \in Paths(arg) :
      LET n == At(arg, p)
          e == At(res, p)
      IN /\ "style" \in DOMAIN e => DOMAIN e.style # {}
         /\ "props" \in DOMAIN e => DOMAIN e.props # {}
         /\ "children" \in DOMAIN e => Len(e.children) > 0
         /\ "style" \in DOMAIN e <=> HasStyleFact(arg, p)
         /\ "props" \in DOMAIN e <=> "characters" \in DOMAIN n
         /\ "children" \in DOMAIN e <=>
              ("children" \in DOMAIN n /\ Len(n.children) > 0)

\* a child with no geometry, fill, radius, text or children under a parent
\* without dimensions has been serialized to a record of id, type and name
C12_BareRecordBelowRoot ==
  /\ stage = "record"
  /\ \E p \in Paths(arg) :
       /\ Len(p) >= 1
       /\ DOMAIN At(res, p) = {"id", "type", "name"}

\* the records of a tree with their depth, a parent before its children
\* and the children in their order
RECURSIVE Concat(_)
Concat(parts) ==
  IF parts = << >> THEN << >> ELSE Head(parts) \o Concat(Tail(parts))

RECURSIVE Preorder(_, _)
Preorder(e, depth) ==
  << [e |-> e, depth |-> depth] >> \o
  ( IF "children" \in DOMAIN e
    THEN Concat([i \in 1..Len(e.children) |->
                   Preorder(e.children[i], depth + 1)])
    ELSE << >> )

\* the lines of the markup that start an element, in the order of the text
Tags(lines) ==
  SelectSeq(lines, LAMBDA l : l.kind \in {"open", "element"})

\* the declarations of a line for one property
Declared(line, prop) == SelectSeq(line.styles, LAMBDA d : d.prop = prop)

StyleOf(e) == IF "style" \in DOMAIN e THEN e.style ELSE NoFields

\* the centre of the node is less than 5 pixels from the centre of its
\* parent (compared in halves of a pixel)
Within5(st) ==
  /\ 2 * st.left + st.width - st.parentWidth < 10
  /\ st.parentWidth - 2 * st.left - st.width < 10

\* C14: a non-root node with a recorded parent width, left and width gets
\* 'left: 50%' with 'transform: translateX(-50%)' and no literal left
\* percentage when its centre is within the tolerance of the parent's
\* centre, and otherwise a literal left percentage and no transform;
\* exactly one of the two forms is emitted.
C14_CentredOrLiteralLeft ==
  stage = "markup" =>
    \A k \in 2..Len(Preorder(res, 0)) :
      LET st == StyleOf(Preorder(res, 0)[k].e)
          line == Tags(html)[k]
      IN {"parentWidth", "left", "width"} \subseteq DOMAIN st =>
           IF Within5(st)
           THEN /\ Declared(line, "left") = << Decl("left", "50%") >>
                /\ Declared(line, "transform")
                     = << Decl("transform", "translateX(-50%)") >>
           ELSE /\ Declared(line, "left")
                     = << Decl("left", pct(st.left, st.parentWidth)) >>
                /\ Declared(line, "transform") = << >>

\* C15: every non-root node is positioned in percentages of its parent: a
\* node that is not centred gets left = left / pw * 100, top = top / ph *
\* 100, width = width / pw * 100 and height = height / ph * 100 with two
\* decimals, whenever the value and the parent dimension are recorded,
\* also when left or top is 0 and when width is 0 or absent.
C15_PercentagesOfParent ==
  stage = "markup" =>
    \A k \in 2..Len(Preorder(res, 0)) :
      LET st == StyleOf(Preorder(res, 0)[k].e)
          line == Tags(html)[k]
          has(f) == f \in DOMAIN st
          centred == IF has("width") /\ has("left") /\ has("parentWidth")
                     THEN Within5(st) ELSE FALSE
      IN /\ has("parentWidth") /\ has("left") /\ ~centred =>
              Declared(line, "left")
                = << Decl("left", pct(st.left, st.parentWidth)) >>
         /\ has("parentHeight") /\ has("top") =>
              Declared(line, "top")
                = << Decl("top", pct(st.top, st.parentHeight)) >>
         /\ has("parentWidth") /\ has("width") =>
              Declared(line, "width")
                = << Decl("width", pct(st.width, st.parentWidth)) >>
         /\ has("parentHeight") /\ has("height") =>
              Declared(line, "height")
                = << Decl("height", pct(st.height, st.parentHeight)) >>

\* C20: the root gets 'position: relative' and its recorded width and
\* height in pixels, and no left, top, transform or percentage; every other
\* node gets 'position: absolute' and no width or height in pixels.
C20_RootInPixelsOthersAbsolute ==
  stage = "markup" =>
    /\ LET st == StyleOf(res)
           line == Tags(html)[1]
       IN /\ Declared(line, "position") = << Decl("position", "relative") >>
          /\ "width" \in DOMAIN st =>
               Declared(line, "width") = << Decl("width", px(st.width)) >>
          /\ "height" \in DOMAIN st =>
               Declared(line, "height") = << Decl("height", px(st.height)) >>
          /\ "width" \notin DOMAIN st => Declared(line, "width") = << >>
          /\ "height" \notin DOMAIN st => Declared(line, "height") = << >>
          /\ \A prop \in {"left", "top", "transform"} :
               Declared(line, prop) = << >>
    /\ \A k \in 2..Len(Preorder(res, 0)) :
         LET st == StyleOf(Preorder(res, 0)[k].e)
             line == Tags(html)[k]
         IN /\ Declared(line, "position")
                 = << Decl("position", "absolute") >>
            /\ \A d \in Range(Declared(line, "width")) :
                 d.value = pct(st.width, st.parentWidth)
            /\ \A d \in Range(Declared(line, "height")) :
                 d.value = pct(st.height, st.parentHeight)

\* every line stands at the depth of the tags open before it, a closing
\* tag at the depth of the tag it closes, and all tags are closed at the end
RECURSIVE WellNested(_, _)
WellNested(lines, depth) ==
  IF lines = << >> THEN depth = 0
  ELSE LET l == Head(lines) IN
       IF l.kind = "open"
       THEN l.indent = depth /\ WellNested(Tail(lines), depth + 1)
       ELSE IF l.kind = "close"
       THEN l.indent = depth - 1 /\ WellNested(Tail(lines), depth - 1)
       ELSE l.indent = depth /\ WellNested(Tail(lines), depth)

HostKids(n) == IF "children" \in DOMAIN n THEN n.children ELSE << >>

\* C18: the order of children is kept from the host to the markup: at every
\* depth the children of a record are the host object's children, as many
\* and in the same order, and generateHTML emits one block per record,
\* nested in the block of its parent, in that order, none dropped and none
\* twice.
C18_ChildOrderPreserved ==
  stage = "markup" =>
    /\ \A p \in Paths(arg) :
         LET kids == HostKids(At(arg, p))
             recs == HostKids(At(res, p))
         IN /\ Len(recs) = Len(kids)
            /\ \A i \in 1..Len(kids) :
                 /\ recs[i].id = kids[i].id
                 /\ recs[i].name = kids[i].name
                 /\ "x" \in DOMAIN kids[i] /\ "y" \in DOMAIN kids[i] =>
                      IsNearest(recs[i].style.left, kids[i].x)
    /\ LET pre == Preorder(res, 0)
           tags == Tags(html)
       IN /\ Len(tags) = Len(pre)
          /\ \A k \in 1..Len(pre) :
               /\ tags[k].indent = pre[k].depth
               /\ tags[k].class = sanitizeClassName(pre[k].e.name)
               /\ tags[k].text = << >> =>
                    (tags[k].kind = "open"
                       \/ "props" \notin DOMAIN pre[k].e
                       \/ pre[k].e.props.text = << >>)
          /\ WellNested(html, 0)

\* the markup of a page holding a row of two different children has been
\* generated
C18_TwoGrandchildrenEmitted ==
  /\ stage = "markup"
  /\ Len(HostKids(arg)) = 1
  /\ Len(HostKids(arg.children[1])) = 2
  /\ arg.children[1].children[1].id # arg.children[1].children[2].id
  /\ Len(Tags(html)) = 4
  /\ Tags(html)[3].class = arg.children[1].children[1].name
  /\ Tags(html)[4].class = arg.children[1].children[2].name

\* the same character, or the same letter in the other case
SameLetter(a, b) ==
  a = b \/ \E k \in 1..Len(UpperCase) : {a, b} = {UpperCase[k], LowerCase[k]}

\* w stands somewhere in s when case is ignored
Contains(s, w) ==
  \E i \in 0..(Len(s) - Len(w)) :
    \A j \in 1..Len(w) : SameLetter(s[i + j], w[j])

\* the categories in their order, each with the words that select it
Priority ==
  << [cat |-> W_button, words |-> {W_button, W_btn}],
     [cat |-> W_input, words |-> {W_input, W_textfield}],
     [cat |-> W_map, words |-> {W_map}],
     [cat |-> W_sheet, words |-> {W_sheet, W_modal}],
     [cat |-> W_pin, words |-> {W_pin, W_marker}] >>

\* C19: inferComponentType answers the category of the first of button/btn,
\* input/textfield, map, sheet/modal, pin/marker that the name contains,
\* case ignored and wherever it stands; when the name contains none it
\* answers 'container' for FRAME and GROUP and else the type in lower case.
C19_FirstKeywordInPriorityOrder ==
  stage = "typed" =>
    LET found == { k \in 1..Len(Priority) :
                     \E w \in Priority[k].words : Contains(arg.name, w) }
    IN IF found # {}
       THEN res = Priority[CHOOSE k \in found : \A j \in found : k <= j].cat
       ELSE IF arg.type \in {T_FRAME, T_GROUP}
       THEN res = W_container
       ELSE /\ Len(res) = Len(arg.type)
            /\ \A i \in 1..Len(res) :
                 SameLetter(res[i], arg.type[i]) /\ res[i] \in Range(LowerCase)

\* a text object named "MapBUTTON" has been given the type button
C19_MapBeforeButtonIsButton ==
  /\ stage = "typed"
  /\ arg.type = T_TEXT
  /\ arg.name = << "M", "a", "p", "B", "U", "T", "T", "O", "N" >>
  /\ res = W_button

AlphaNumeric == Range(UpperCase) \cup Range(LowerCase) \cup Range(Digits)

\* no hyphen at either end and no two hyphens side by side
IsolatedHyphens(s) ==
  /\ s # <<>> => s[1] # "-" /\ s[Len(s)] # "-"
  /\ \A i \in 1..(Len(s) - 1) : ~(s[i] = "-" /\ s[i + 1] = "-")

\* the maximal runs of characters of s outside Sep, in order
RECURSIVE Words(_, _)
Words(s, Sep) ==
  IF s = <<>> THEN <<>>
  ELSE IF s[1] \in Sep THEN Words(Tail(s), Sep)
  ELSE LET stops == { i \in 1..Len(s) : s[i] \in Sep }
           n == IF stops = {} THEN Len(s)
                ELSE (CHOOSE i \in stops : \A j \in stops : i <= j) - 1
       IN << SubSeq(s, 1, n) >> \o Words(SubSeq(s, n + 1, Len(s)), Sep)

\* s with one hyphen between its words
RECURSIVE Joined(_)
Joined(ws) ==
  IF ws = <<>> THEN <<>>
  ELSE IF Len(ws) = 1 THEN ws[1]
  ELSE ws[1] \o << "-" >> \o Joined(Tail(ws))

\* C16 as stated: the label is the name with every run of non-alphanumeric
\* characters replaced by a single hyphen, it contains only letters, digits
\* and isolated hyphens, and it neither begins nor ends with a hyphen.
C16_NonAlphanumericRunsBecomeOneHyphen ==
  stage = "label" =>
    /\ Range(res) \subseteq AlphaNumeric \cup {"-"}
    /\ IsolatedHyphens(res)
    /\ res = Joined(Words(arg, NameChars \ AlphaNumeric))

\* C16 amended: underscores are kept like letters and digits; every run of
\* other characters is replaced by a single hyphen, a run at either end by
\* nothing; the label contains only letters, digits, underscores and
\* isolated hyphens and neither begins nor ends with a hyphen.
C16_RunsOutsideWordCharsBecomeOneHyphen ==
  stage = "label" =>
    /\ Range(res) \subseteq AlphaNumeric \cup {"_", "-"}
    /\ IsolatedHyphens(res)
    /\ res = Joined(Words(arg, (NameChars \ AlphaNumeric) \ {"_"}))

\* "My Button!! 2" has been made into "My-Button-2"
C16_ExampleSanitized ==
  /\ stage = "label"
  /\ arg = MyButton2
  /\ res = << "M", "y", "-", "B", "u", "t", "t", "o", "n", "-", "2" >>

(* ---------------------------- parent dimensions ------------------------ *)
\* C22: in the tree made by serializeNode the top-level record has neither
\* parentWidth nor parentHeight, and every record below it has
\* style.parentWidth exactly when the record of its parent has style.width,
\* with that value, and style.parentHeight exactly when the record of its
\* parent has style.height, with that value.
C22_ParentDimensionsMatchParent ==
  stage = "record" =>
    /\ {"parentWidth", "parentHeight"} \cap DOMAIN StyleOf(res) = {}
    /\ \A p \in Paths(res) \ { <<>> } :
         LET st == StyleOf(At(res, p))
             pst == StyleOf(At(res, Front(p)))
         IN /\ "parentWidth" \in DOMAIN st <=> "width" \in DOMAIN pst
            /\ "parentWidth" \in DOMAIN st => st.parentWidth = pst.width
            /\ "parentHeight" \in DOMAIN st <=> "height" \in DOMAIN pst
            /\ "parentHeight" \in DOMAIN st => st.parentHeight = pst.height

(* ---------------------------- panel and store -------------------------- *)
\* what the panel should hold for a value of the slot
SlotToken == IF slot = Undef THEN "" ELSE slot

\* C21: once the panel is mounted and no request or response is under way
\* (nothing in either channel, no handler suspended), the panel's
\* accessToken is the value of the token slot, the empty string when the
\* slot is empty, whatever the order in which the storage operations
\* completed and the responses were delivered.
C21_PanelAgreesWithSlotWhenQuiet ==
  mounted /\ Quiet => accessToken = SlotToken

TypeOK ==
  /\ hostUp \in BOOLEAN
  /\ selection \in Selections
  /\ slot \in SlotValues
  /\ mounted \in BOOLEAN
  /\ accessToken \in Tokens \cup {Stored}
  /\ tokenInput \in Tokens \cup {Stored}
  /\ showSettings \in BOOLEAN
  /\ clicks \in 0..MaxClicks
  /\ Len(calls) <= MaxEvents + 1
  /\ stage \in {"idle", "host", "record", "markup", "name", "label",
                "named", "typed"}
  /\ stage = "idle" => arg = <<>> /\ res = <<>> /\ html = <<>>
====
